---- MODULE Spec2Model ----
(***************************************************************************)
(* A model of the repository inspection core of differ (src-tauri):        *)
(*   git/mod.rs  - parse_diff and the diff operations built on it,         *)
(*                 get_commit_history, get_commit_diff, parse_remote_url   *)
(*   watcher.rs  - FileWatcher and its background thread handle_events     *)
(*   lib.rs      - AppState, cmd_set_repo_path and cmd_get_commits           *)
(* Text is modelled as sequences of one-character strings.                 *)
(***************************************************************************)
EXTENDS Integers, Sequences, FiniteSets, TLC

(***************************************************************************)
(* Bounds of the model.                                                    *)
(***************************************************************************)
\* commits reachable from HEAD in the repository
MaxCommits == 2
\* callbacks (file and line) of one diff traversal
MaxCallbacks == 5
\* events and errors the debouncer sends over the life of one watcher
MaxSent == 3
\* invocations of cmd_set_repo_path the host issues
MaxCalls == 2
\* bits of a usize in the model (the program's has 64)
UsizeBits == 5

(***************************************************************************)
(* Program constants.                                                      *)
(***************************************************************************)
\* git/mod.rs: const MAX_PATCH_SIZE: usize = 50000
MAX_PATCH_SIZE == 50000
\* a byte cap handed to parse_diff
Cap(n) == [bounded |-> TRUE, bytes |-> n]

\* usize::MAX, the cap get_commit_diff and compare_branches pass: 2^64 - 1 is
\* kept symbolic; no String is longer, so a length never exceeds it
USIZE_MAX == [bounded |-> FALSE]

VARIABLES
  \* ---- the repository on disk (unchanging during a run) ----
  repo,
  \* ---- git/mod.rs: the running diff operation and parse_diff's locals ----
  op,
  max_patch_size,
  delta,
  files,
  result,
  \* ---- history of the traversal, for stating the claims ----
  fed,
  ncallbacks,
  \* ---- watcher.rs: the FileWatcher handle, the debouncer's sender, the
  \* channel, the background thread (handle_events) and the sink ----
  watcher,
  sender,
  channel,
  thread,
  emitted,
  \* ---- history of the watcher, for stating the claims ----
  sent,
  handled,
  \* ---- git/mod.rs: the URL of the remote "origin" and get_remote_url's
  \* answer ----
  origin,
  remote,
  \* ---- lib.rs: AppState's repo_path and watcher, the running invocations
  \* of cmd_set_repo_path, and the answer of cmd_get_commits ----
  repo_path,
  app_watcher,
  calls,
  commits

dvars == <<repo, op, max_patch_size, delta, files, result, fed, ncallbacks>>

wvars == <<watcher, sender, channel, thread, emitted, sent, handled>>

rvars == <<origin, remote>>

avars == <<repo_path, app_watcher, calls, commits>>

vars == <<dvars, wvars, rvars, avars>>

(***************************************************************************)
(* The repository: a history of commits, oldest first.  Commit i of the    *)
(* history has object id i.  Each carries what the library's own           *)
(* diff-stats summary (Diff::stats over parent -> commit) answers for it:  *)
(* not ok when the summary cannot be computed.                             *)
(***************************************************************************)
ZeroStats == [additions |-> 0, deletions |-> 0, files |-> 0]

Summaries ==
  {[ok |-> FALSE],
   [ok |-> TRUE, additions |-> 1, deletions |-> 1, files |-> 1]}

Repos == UNION {[1..n -> Summaries] : n \in 0..MaxCommits}

\* revwalk.push_head(); set_sorting(Sort::TIME): newest commit first
Revwalk(r) == [i \in 1..Len(r) |-> Len(r) + 1 - i]

(***************************************************************************)
(* git/mod.rs: calculate_commit_stats and commit_to_info.                  *)
(***************************************************************************)
\* Err when the library summary fails, else its numbers
calculate_commit_stats(r, commit) == r[commit]

\* .unwrap_or(CommitStats { 0, 0, 0 }); the other fields are the commit's own
commit_to_info(r, commit) ==
  LET stats == calculate_commit_stats(r, commit)
  IN  [sha |-> commit,
       stats |-> IF stats.ok
                 THEN [additions |-> stats.additions,
                       deletions |-> stats.deletions,
                       files |-> stats.files]
                 ELSE ZeroStats]

(***************************************************************************)
(* git/mod.rs: parse_diff.  The library drives two callbacks over the      *)
(* diff: the file callback once per delta, then the line callback for each *)
(* line of that delta.  A FileDiffInfo's patch is held as its byte length  *)
(* (patch.len()); the empty String is 0.                                   *)
(***************************************************************************)
Paths == {"a.txt", "b.txt"}

LineOrigins == {"+", "-", " ", "H"}

\* a diff line: its origin marker, the byte length of its content and whether
\* the content is valid UTF-8
DiffLines ==
  [origin : LineOrigins, len : {1, MAX_PATCH_SIZE}, utf8 : {TRUE}]
    \cup {[origin |-> "+", len |-> 1, utf8 |-> FALSE]}

\* the file callback's push (lines 343-353)
NewFileDiffInfo(path) ==
  [path |-> path, additions |-> 0, deletions |-> 0, patch |-> 0,
   is_large |-> FALSE]

\* patch.len() > max_patch_size
ExceedsCap(len, cap) == cap.bounded /\ len > cap.bytes

\* match line.origin() { '+' => additions += 1, '-' => deletions += 1, _ => {} }
\* (variant: a file already marked large is no longer counted)
CountLineSkippingLarge(file, line) ==
  IF file.is_large THEN file
  ELSE [file EXCEPT !.additions = @ + (IF line.origin = "+" THEN 1 ELSE 0),
                    !.deletions = @ + (IF line.origin = "-" THEN 1 ELSE 0)]

CountLine(file, line) ==
  [file EXCEPT !.additions = @ + (IF line.origin = "+" THEN 1 ELSE 0),
               !.deletions = @ + (IF line.origin = "-" THEN 1 ELSE 0)]

\* "Build patch": file.patch is always Some, so every line is appended, also
\* after the file was marked large; then the cap is checked
BuildPatch(file, line, cap) ==
  LET withOrigin == file.patch
                    + (IF line.origin \in {"+", "-", " "} THEN 1 ELSE 0)
      withContent == withOrigin + (IF line.utf8 THEN line.len ELSE 0)
  IN  IF ExceedsCap(withContent, cap)
      THEN [file EXCEPT !.is_large = TRUE, !.patch = 0]
      ELSE [file EXCEPT !.patch = withContent]

\* the line callback (lines 359-394) on the files vector
LineCallback(fs, current_path, line, cap) ==
  IF fs = <<>> THEN fs
  ELSE LET file == fs[Len(fs)]
       IN  IF file.path = current_path
           THEN [fs EXCEPT ![Len(fs)] = BuildPatch(CountLine(file, line), line, cap)]
           ELSE fs

\* "Calculate totals": the loop of lines 400-405, front to back
RECURSIVE TotalsFrom(_, _, _)
TotalsFrom(fs, i, acc) ==
  IF i > Len(fs) THEN acc
  ELSE TotalsFrom(fs, i + 1,
                  [acc EXCEPT !.additions = @ + fs[i].additions,
                              !.deletions = @ + fs[i].deletions])

\* (variant: the loop stops one file short)
TotalsSkippingLast(fs) ==
  [TotalsFrom(SubSeq(fs, 1, Len(fs) - 1), 1, ZeroStats) EXCEPT !.files = Len(fs)]

Totals(fs) ==
  [TotalsFrom(fs, 1, ZeroStats) EXCEPT !.files = Len(fs)]

\* Ok(DiffResult { files, stats })
DiffResultOf(fs) == [files |-> fs, stats |-> Totals(fs)]

(***************************************************************************)
(* The diff operations.  Each prepares a diff and hands it to parse_diff;  *)
(* the traversal then runs callback by callback, and the return step       *)
(* builds the operation's result.                                          *)
(***************************************************************************)
NoResult == [kind |-> "none"]

\* GitError: Git(git2::Error) is what `?` makes of a library error (From);
\* CommitNotFound(String) is declared at line 18
GitErrorGit == [kind |-> "Git"]

Err(error) == [kind |-> "Err", error |-> error]

Idle == [name |-> "idle"]

Parsing == op.name \in {"current_diff", "commit_diff", "compare_branches"}

\* parse_diff's entry: an empty files vector (line 320)
StartParse(o, cap) ==
  /\ op' = o
  /\ max_patch_size' = cap
  /\ delta' = [path |-> ""]
  /\ files' = <<>>
  /\ fed' = <<>>
  /\ ncallbacks' = 0
  /\ result' = NoResult
  /\ UNCHANGED <<repo, wvars, rvars, avars>>

\* an operation that fails before any diff is parsed
Fail(o, error) ==
  /\ op' = o
  /\ result' = Err(error)
  /\ files' = <<>>
  /\ fed' = <<>>
  /\ ncallbacks' = 0
  /\ UNCHANGED <<repo, max_patch_size, delta, wvars, rvars, avars>>

\* get_current_diff: repo.head()? fails on a repository without commits
get_current_diff ==
  /\ op = Idle
  /\ IF Len(repo) = 0
     THEN Fail([name |-> "current_diff"], GitErrorGit)
     ELSE StartParse([name |-> "current_diff"], Cap(MAX_PATCH_SIZE))

\* object ids a caller may name: those of the commits, and one that names no
\* commit of the repository
Oids == 1..(MaxCommits + 1)

\* a sha string, by what Oid::from_str makes of it: not hex (Err), or the id
Shas == {[hex |-> FALSE]} \cup [hex : {TRUE}, oid : Oids]

\* get_commit_diff up to parse_diff: Oid::from_str(sha)? and
\* repo.find_commit(oid)? both convert the library's error with From (Git)
get_commit_diff ==
  /\ op = Idle
  /\ \E sha \in Shas :
       IF ~sha.hex
       THEN Fail([name |-> "commit_diff", sha |-> sha], GitErrorGit)
       ELSE IF sha.oid \notin 1..Len(repo)
       THEN Fail([name |-> "commit_diff", sha |-> sha], GitErrorGit)
       ELSE StartParse([name |-> "commit_diff", sha |-> sha], USIZE_MAX)

\* compare_branches up to parse_diff; base and head are short names, here the
\* commit each resolves to (0: resolve_reference_from_short_name fails)
compare_branches ==
  /\ op = Idle
  /\ \E base \in 0..Len(repo), head \in 0..Len(repo) :
       IF base = 0 \/ head = 0
       THEN Fail([name |-> "compare_branches"], GitErrorGit)
       ELSE StartParse([name |-> "compare_branches",
                        commit_count |-> IF head > base THEN head - base ELSE 0],
                       USIZE_MAX)

\* the file callback of diff.foreach, once per delta
FileCallback ==
  /\ Parsing
  /\ result = NoResult
  /\ ncallbacks < MaxCallbacks
  /\ \E path \in Paths :
       /\ delta' = [path |-> path]
       /\ files' = Append(files, NewFileDiffInfo(path))
       /\ fed' = Append(fed, [plus |-> 0, minus |-> 0])
  /\ ncallbacks' = ncallbacks + 1
  /\ UNCHANGED <<repo, op, max_patch_size, result, wvars, rvars, avars>>

\* the line callback of diff.foreach, for a line of the current delta
LineCallbackStep ==
  /\ Parsing
  /\ result = NoResult
  /\ files # <<>>
  /\ ncallbacks < MaxCallbacks
  /\ \E line \in DiffLines :
       /\ files' = LineCallback(files, delta.path, line, max_patch_size)
       /\ fed' = [fed EXCEPT ![Len(fed)] =
                    [plus |-> @.plus + (IF line.origin = "+" THEN 1 ELSE 0),
                     minus |-> @.minus + (IF line.origin = "-" THEN 1 ELSE 0)]]
  /\ ncallbacks' = ncallbacks + 1
  /\ UNCHANGED <<repo, op, max_patch_size, delta, result, wvars, rvars, avars>>

\* get_commit_diff's return: commit_to_info's stats replaced (lines 109-121)
\* (variant: commit_info returned as built, its stats not replaced)
CommitDiffKeepingLibraryStats(r, commit, diff_result) ==
  [kind |-> "CommitDiff",
   commit |-> commit_to_info(r, commit),
   files |-> diff_result.files]

CommitDiffOf(r, commit, diff_result) ==
  [kind |-> "CommitDiff",
   commit |-> [commit_to_info(r, commit) EXCEPT !.stats = diff_result.stats],
   files |-> diff_result.files]

\* compare_branches's return (lines 144-148)
CompareBranchesResultOf(diff_result, commit_count) ==
  [kind |-> "CompareBranchesResult",
   files |-> diff_result.files,
   stats |-> diff_result.stats,
   commit_count |-> commit_count]

\* the traversal ends: parse_diff totals and returns, and the operation
\* builds its own result from it
Return ==
  /\ Parsing
  /\ result = NoResult
  /\ LET diff_result == DiffResultOf(files)
     IN  result' =
           CASE op.name = "current_diff" ->
                  [kind |-> "DiffResult",
                   files |-> diff_result.files,
                   stats |-> diff_result.stats]
             [] op.name = "commit_diff" ->
                  CommitDiffOf(repo, op.sha.oid, diff_result)
             [] op.name = "compare_branches" ->
                  CompareBranchesResultOf(diff_result, op.commit_count)
  /\ UNCHANGED <<repo, op, max_patch_size, delta, files, fed, ncallbacks, wvars, rvars, avars>>

\* the caller takes the result; the next operation may start
Done ==
  /\ result # NoResult
  /\ op' = Idle
  /\ result' = NoResult
  /\ files' = <<>>
  /\ fed' = <<>>
  /\ ncallbacks' = 0
  /\ delta' = [path |-> ""]
  /\ max_patch_size' = USIZE_MAX
  /\ UNCHANGED <<repo, wvars, rvars, avars>>

(***************************************************************************)
(* git/mod.rs: get_commit_history.                                         *)
(***************************************************************************)
\* Iterator::count over the first revwalk
RECURSIVE Count(_)
Count(walk) == IF walk = <<>> THEN 0 ELSE 1 + Count(Tail(walk))

\* Iterator::skip
\* (variant: one element too many is skipped)
RECURSIVE SkipOneMore(_, _)
SkipOneMore(walk, n) ==
  IF walk = <<>> THEN walk
  ELSE IF n = 0 THEN Tail(walk)
  ELSE SkipOneMore(Tail(walk), n - 1)

RECURSIVE Skip(_, _)
Skip(walk, n) ==
  IF n = 0 \/ walk = <<>> THEN walk ELSE Skip(Tail(walk), n - 1)

\* Iterator::take
RECURSIVE Take(_, _)
Take(walk, n) ==
  IF n = 0 \/ walk = <<>> THEN <<>>
  ELSE <<Head(walk)>> \o Take(Tail(walk), n - 1)

\* lines 82-88: skip, take, then each commit found and mapped to its info
PageOf(r, limit, offset) ==
  LET oids == Take(Skip(Revwalk(r), offset), limit)
  IN  [j \in 1..Len(oids) |-> commit_to_info(r, oids[j])]

\* Ok(CommitHistory { commits, total })
CommitHistoryOf(r, limit, offset) ==
  [kind |-> "CommitHistory",
   commits |-> PageOf(r, limit, offset),
   total |-> Count(Revwalk(r))]

\* the limits and offsets a caller passes
HistoryArgs == 0..(MaxCommits + 1)

\* get_commit_history: revwalk.push_head()? fails without a HEAD commit
get_commit_history ==
  /\ op = Idle
  /\ \E limit \in HistoryArgs, offset \in HistoryArgs :
       /\ op' = [name |-> "commit_history", limit |-> limit, offset |-> offset]
       /\ result' = IF Len(repo) = 0
                    THEN Err(GitErrorGit)
                    ELSE CommitHistoryOf(repo, limit, offset)
  /\ UNCHANGED <<repo, max_patch_size, delta, files, fed, ncallbacks, wvars, rvars, avars>>

(***************************************************************************)
(* Text: a string is a sequence of one-character strings.                  *)
(***************************************************************************)
\* str::starts_with
StartsWith(s, pat) == Len(s) >= Len(pat) /\ SubSeq(s, 1, Len(pat)) = pat

\* str::ends_with
EndsWith(s, pat) ==
  Len(s) >= Len(pat) /\ SubSeq(s, Len(s) - Len(pat) + 1, Len(s)) = pat

\* str::contains: the first match, scanning from the front
RECURSIVE Contains(_, _)
Contains(s, pat) ==
  IF Len(s) < Len(pat) THEN FALSE
  ELSE IF StartsWith(s, pat) THEN TRUE
  ELSE Contains(Tail(s), pat)

\* str::split on one character: the pieces between its occurrences
RECURSIVE SplitFrom(_, _, _)
SplitFrom(s, ch, piece) ==
  IF s = <<>> THEN <<piece>>
  ELSE IF Head(s) = ch THEN <<piece>> \o SplitFrom(Tail(s), ch, <<>>)
  ELSE SplitFrom(Tail(s), ch, Append(piece, Head(s)))

Split(s, ch) == SplitFrom(s, ch, <<>>)

\* the pieces joined again with the separator
RECURSIVE Join(_, _)
Join(pieces, sep) ==
  IF pieces = <<>> THEN <<>>
  ELSE IF Len(pieces) = 1 THEN pieces[1]
  ELSE pieces[1] \o sep \o Join(Tail(pieces), sep)

(***************************************************************************)
(* watcher.rs: FileWatcher and handle_events.                              *)
(***************************************************************************)
\* the watched root (base_path) and the absolute paths of debounced events
BasePath == <<"/", "r">>

EventPaths ==
  {<<"/", "r", "/", "a">>, <<"/", "r", "/", "d", "/", "a">>, <<"/", "r", "/", ".", "g", "i", "t", "/", "a">>, <<"/", "r", "/", ".", "g", "i", "t", "h">>, <<"/", "r", "x", "/", "a">>}

\* Path::components of an absolute path: the root, then the non-empty names
PathComponents(path) == SelectSeq(Split(path, "/"), LAMBDA c : c # <<>>)

\* Path::strip_prefix: by whole components; Err when base is no prefix
StripPrefix(path, base) ==
  LET pc == PathComponents(path)
      bc == PathComponents(base)
  IN  IF Len(bc) <= Len(pc) /\ SubSeq(pc, 1, Len(bc)) = bc
      THEN [ok |-> TRUE, path |-> Join(SubSeq(pc, Len(bc) + 1, Len(pc)), <<"/">>)]
      ELSE [ok |-> FALSE]

\* path_str.contains(".git")
\* (variant: no path is recognised as a .git path)
SkipsNoPath(path) == FALSE

IsGitPath(path) == Contains(path, <<".", "g", "i", "t">>)

\* event.path.strip_prefix(base_path).unwrap_or(&event.path)
RelativePath(path, base) ==
  LET stripped == StripPrefix(path, base)
  IN  IF stripped.ok THEN stripped.path ELSE path

\* FileChangeEvent { event_type: "change", file, timestamp }; the timestamp
\* is the wall clock at the time of the event and is left out
FileChangeEvent(path, base) ==
  [event_type |-> "change", file |-> RelativePath(path, base)]

\* messages on the channel: Ok(events) or Err(notify::Error)
OkBatch(events) == [ok |-> TRUE, events |-> events]

RawError == [ok |-> FALSE]

\* rx.recv(): a queued message first; Err only when the channel is empty and
\* the sender is gone; otherwise it blocks
\* (variant: a closed channel is never noticed)
RecvNeverDisconnects(ch, snd) ==
  IF ch # <<>> THEN "message" ELSE "blocked"

Recv(ch, snd) ==
  IF ch # <<>> THEN "message"
  ELSE IF snd = "closed" THEN "disconnected"
  ELSE "blocked"

\* the thread after `if let Err(e) = app_handle.emit(..) { eprintln!(..) }`:
\* the for loop goes on with the rest of the batch
\* (variant: a failed emit ends the thread)
AfterEmitStoppingOnFailure(rest, ok) ==
  IF ok THEN [pc |-> IF rest = <<>> THEN "recv" ELSE "events", events |-> rest]
  ELSE [pc |-> "exited", events |-> <<>>]

AfterEmit(rest, ok) ==
  [pc |-> IF rest = <<>> THEN "recv" ELSE "events", events |-> rest]

\* the thread after Ok(Err(e)) => eprintln!(..): the loop goes on
AfterRawError == [pc |-> "recv", events |-> <<>>]

\* the debouncer thread hands a batch of debounced events to the sender; it
\* may still do so after the handle is dropped, until it sees the stop flag
\* (batches are never empty)
SendEvents ==
  /\ sender = "open"
  /\ \E n \in 1..(MaxSent - sent) :
       \E events \in [1..n -> EventPaths] :
         /\ channel' = Append(channel, OkBatch(events))
         /\ sent' = sent + n
  /\ UNCHANGED <<dvars, rvars, avars, watcher, sender, thread, emitted, handled>>

\* the debouncer thread hands on a raw notify::Error
SendError ==
  /\ sender = "open"
  /\ sent < MaxSent
  /\ channel' = Append(channel, RawError)
  /\ sent' = sent + 1
  /\ UNCHANGED <<dvars, rvars, avars, watcher, sender, thread, emitted, handled>>

\* the host drops the FileWatcher (and with it the Debouncer)
DropWatcher ==
  /\ watcher = "alive"
  /\ watcher' = "dropped"
  /\ UNCHANGED <<dvars, rvars, avars, sender, channel, thread, emitted, sent, handled>>

\* the debouncer thread sees the stop flag and ends, dropping the sender
SenderDropped ==
  /\ watcher = "dropped"
  /\ sender = "open"
  /\ sender' = "closed"
  /\ UNCHANGED <<dvars, rvars, avars, watcher, channel, thread, emitted, sent, handled>>

\* handle_events: one rx.recv() and its match arm (lines 50-51, 79-86)
Receive ==
  /\ thread.pc = "recv"
  /\ Recv(channel, sender) # "blocked"
  /\ IF Recv(channel, sender) = "disconnected"
     THEN /\ thread' = [pc |-> "exited", events |-> <<>>]
          /\ UNCHANGED <<channel, handled>>
     ELSE /\ channel' = Tail(channel)
          /\ IF Head(channel).ok
             THEN /\ thread' = [pc |-> "events", events |-> Head(channel).events]
                  /\ UNCHANGED handled
             ELSE /\ thread' = AfterRawError
                  /\ handled' = [handled EXCEPT !.errors = @ + 1]
  /\ UNCHANGED <<dvars, rvars, avars, watcher, sender, emitted, sent>>

\* handle_events: one turn of `for event in events` (lines 52-77); the sink
\* (app_handle.emit) answers Ok or Err
HandleEvent ==
  /\ thread.pc = "events"
  /\ LET path == Head(thread.events)
         rest == Tail(thread.events)
     IN  IF IsGitPath(path)
         THEN /\ thread' = [pc |-> IF rest = <<>> THEN "recv" ELSE "events",
                            events |-> rest]
              /\ UNCHANGED emitted
         ELSE \E ok \in BOOLEAN :
                /\ emitted' = Append(emitted,
                                [event |-> FileChangeEvent(path, BasePath),
                                 ok |-> ok])
                /\ thread' = AfterEmit(rest, ok)
  /\ handled' = [handled EXCEPT !.events = @ + 1]
  /\ UNCHANGED <<dvars, rvars, avars, watcher, sender, channel, sent>>

(***************************************************************************)
(* git/mod.rs: get_remote_url, parse_remote_url and detect_provider.       *)
(***************************************************************************)
\* str::trim_end_matches: the suffix removed as often as it occurs
RECURSIVE TrimEndMatches(_, _)
TrimEndMatches(s, pat) ==
  IF pat # <<>> /\ EndsWith(s, pat)
  THEN TrimEndMatches(SubSeq(s, 1, Len(s) - Len(pat)), pat)
  ELSE s

\* str::trim_start_matches on one character
RECURSIVE TrimStartMatches(_, _)
TrimStartMatches(s, ch) ==
  IF s # <<>> /\ Head(s) = ch THEN TrimStartMatches(Tail(s), ch) ELSE s

\* the index of the first / last occurrence of a character, 0 when absent
IndexOf(s, ch) ==
  IF \E i \in 1..Len(s) : s[i] = ch
  THEN CHOOSE i \in 1..Len(s) : s[i] = ch /\ \A j \in 1..(i - 1) : s[j] # ch
  ELSE 0

LastIndexOf(s, ch) ==
  IF \E i \in 1..Len(s) : s[i] = ch
  THEN CHOOSE i \in 1..Len(s) : s[i] = ch /\ \A j \in (i + 1)..Len(s) : s[j] # ch
  ELSE 0

UpperLetters == <<"A", "B", "C", "D", "E", "F", "G", "H", "I", "J", "K", "L", "M", "N", "O", "P", "Q", "R", "S", "T", "U", "V", "W", "X", "Y", "Z">>

LowerLetters == <<"a", "b", "c", "d", "e", "f", "g", "h", "i", "j", "k", "l", "m", "n", "o", "p", "q", "r", "s", "t", "u", "v", "w", "x", "y", "z">>

Digits == <<"0", "1", "2", "3", "4", "5", "6", "7", "8", "9">>

InSeq(c, chars) == \E i \in 1..Len(chars) : chars[i] = c

LowerChar(c) ==
  IF InSeq(c, UpperLetters)
  THEN LowerLetters[CHOOSE i \in 1..Len(UpperLetters) : UpperLetters[i] = c]
  ELSE c

ToAsciiLowercase(s) == [i \in 1..Len(s) |-> LowerChar(s[i])]

\* url::Url::parse, as far as parse_remote_url reads its result (host_str and
\* path), on URLs without query, fragment, percent-escapes or dot segments:
\* a scheme is required; http and https skip the slashes before the
\* authority, need a non-empty host and lower-case it; another scheme has an
\* authority only after "//" (an empty one is no host) and keeps its path as
\* written, but that a file: path always starts with "/"
UrlErr == [ok |-> FALSE]

IsScheme(scheme) ==
  /\ scheme # <<>>
  /\ InSeq(scheme[1], UpperLetters \o LowerLetters)
  /\ \A i \in 1..Len(scheme) :
       InSeq(scheme[i], UpperLetters \o LowerLetters \o Digits \o <<"+", "-", ".">>)

UrlAuthority(rest, special) ==
  LET slash == IndexOf(rest, "/")
      authority == IF slash = 0 THEN rest ELSE SubSeq(rest, 1, slash - 1)
      path == IF slash = 0
              THEN (IF special THEN <<"/">> ELSE <<>>)
              ELSE SubSeq(rest, slash, Len(rest))
      at == LastIndexOf(authority, "@")
      hostport == SubSeq(authority, at + 1, Len(authority))
      colon == IndexOf(hostport, ":")
      host == IF colon = 0 THEN hostport ELSE SubSeq(hostport, 1, colon - 1)
      port == IF colon = 0 THEN <<>> ELSE SubSeq(hostport, colon + 1, Len(hostport))
  IN  IF \E i \in 1..Len(port) : ~InSeq(port[i], Digits) THEN UrlErr
      ELSE IF special /\ host = <<>> THEN UrlErr
      ELSE [ok |-> TRUE,
            has_host |-> host # <<>>,
            host |-> IF special THEN ToAsciiLowercase(host) ELSE host,
            path |-> path]

UrlParse(s) ==
  LET colon == IndexOf(s, ":")
      scheme == ToAsciiLowercase(SubSeq(s, 1, colon - 1))
      rest == SubSeq(s, colon + 1, Len(s))
  IN  IF colon = 0 \/ ~IsScheme(scheme) THEN UrlErr
      ELSE IF scheme \in {<<"h", "t", "t", "p">>, <<"h", "t", "t", "p", "s">>}
      THEN UrlAuthority(TrimStartMatches(rest, "/"), TRUE)
      ELSE IF StartsWith(rest, <<"/", "/">>)
      THEN UrlAuthority(SubSeq(rest, 3, Len(rest)), FALSE)
      ELSE IF scheme = <<"f", "i", "l", "e">> /\ ~StartsWith(rest, <<"/">>)
      THEN [ok |-> TRUE, has_host |-> FALSE, host |-> <<>>, path |-> <<"/">> \o rest]
      ELSE [ok |-> TRUE, has_host |-> FALSE, host |-> <<>>, path |-> rest]

\* detect_provider: substring tests on the host as given
detect_provider(host) ==
  IF Contains(host, <<"g", "i", "t", "h", "u", "b">>) THEN "github"
  ELSE IF Contains(host, <<"g", "i", "t", "l", "a", "b">>) THEN "gitlab"
  ELSE IF Contains(host, <<"b", "i", "t", "b", "u", "c", "k", "e", "t">>) THEN "bitbucket"
  ELSE "unknown"

None == [kind |-> "None"]

Some(v) == [kind |-> "Some", value |-> v]

\* the RemoteInfo both branches build from host and path (lines 229-234, 244-249)
RemoteInfoOf(host, path, path_parts) ==
  [url |-> <<"h", "t", "t", "p", "s", ":", "/", "/">> \o host \o <<"/">> \o path,
   provider |-> detect_provider(host),
   owner |-> path_parts[1],
   repo |-> path_parts[2]]

\* parse_remote_url
parse_remote_url(url) ==
  IF StartsWith(url, <<"g", "i", "t", "@">>)
  THEN LET parts == Split(SubSeq(url, 5, Len(url)), ":")
       IN  IF Len(parts) # 2 THEN None
           ELSE LET host == parts[1]
                    path == TrimEndMatches(parts[2], <<".", "g", "i", "t">>)
                    path_parts == Split(path, "/")
                IN  IF Len(path_parts) < 2 THEN None
                    ELSE Some(RemoteInfoOf(host, path, path_parts))
  ELSE LET parsed == UrlParse(url)
       IN  IF ~parsed.ok THEN None
           ELSE LET host == IF parsed.has_host THEN parsed.host ELSE <<>>
                    path == TrimEndMatches(TrimStartMatches(parsed.path, "/"), <<".", "g", "i", "t">>)
                    path_parts == Split(path, "/")
                IN  IF Len(path_parts) >= 2
                    THEN Some(RemoteInfoOf(host, path, path_parts))
                    ELSE None

\* the hosts, owners and repository names remotes are built from
Hosts ==
  {<<"g", "i", "t", "h", "u", "b", ".", "c", "o", "m">>, <<"g", "i", "t", "l", "a", "b", ".", "e", "x", "a", "m", "p", "l", "e", ".", "c", "o", "m">>, <<"b", "i", "t", "b", "u", "c", "k", "e", "t", ".", "o", "r", "g">>, <<"e", "x", "a", "m", "p", "l", "e", ".", "c", "o", "m">>,
   <<"G", "i", "t", "H", "u", "b", ".", "c", "o", "m">>}

Owners == {<<"f", "o", "o">>, <<"t", "e", "a", "m">>, <<"a">>}

RepoNames == {<<"b", "a", "r">>, <<"p", "r", "o", "j">>, <<"b">>, <<"b", "a", "r", ".", "g", "i", "t">>}

\* git@H:O/R.git
ScpUrl(h, o, r) == <<"g", "i", "t", "@">> \o h \o <<":">> \o o \o <<"/">> \o r \o <<".", "g", "i", "t">>

\* https://H/O/R.git
HttpsUrl(h, o, r) == <<"h", "t", "t", "p", "s", ":", "/", "/">> \o h \o <<"/">> \o o \o <<"/">> \o r \o <<".", "g", "i", "t">>

\* origin URLs of other shapes: local paths, file: URLs with and without a
\* host, an ssh: URL, and a git@ string without a path
OtherUrls ==
  {<<"/", "s", "r", "v", "/", "r", "e", "p", "o", ".", "g", "i", "t">>, <<"r", "e", "p", "o">>, <<"f", "i", "l", "e", ":", "/", "/", "/", "s", "r", "v", "/", "r", "e", "p", "o", ".", "g", "i", "t">>, <<"f", "i", "l", "e", ":", "/", "/", "/", "r", "e", "p", "o", ".", "g", "i", "t">>,
   <<"f", "i", "l", "e", ":", "a", "/", "b">>, <<"f", "i", "l", "e", ":", "/", "/", "n", "a", "s", "/", "s", "r", "v", "/", "r", "e", "p", "o", ".", "g", "i", "t">>, <<"s", "s", "h", ":", "/", "/", "g", "i", "t", "@", "g", "i", "t", "h", "u", "b", ".", "c", "o", "m", "/", "f", "o", "o", "/", "b", "a", "r", ".", "g", "i", "t">>,
   <<"g", "i", "t", "@", "g", "i", "t", "h", "u", "b", ".", "c", "o", "m">>}

\* what the repository has as its remote "origin": none, or a URL
OriginUrls ==
  {[present |-> FALSE]}
    \cup {[present |-> TRUE, url |-> ScpUrl(h, o, r)] :
            h \in Hosts, o \in Owners, r \in RepoNames}
    \cup {[present |-> TRUE, url |-> HttpsUrl(h, o, r)] :
            h \in Hosts, o \in Owners, r \in RepoNames}
    \cup {[present |-> TRUE, url |-> u] : u \in OtherUrls}

\* get_remote_url: no remote "origin" is Ok(None), else the URL is parsed
get_remote_url ==
  /\ remote = NoResult
  /\ remote' = IF origin.present THEN parse_remote_url(origin.url) ELSE None
  /\ UNCHANGED <<dvars, wvars, avars, origin>>

\* the caller takes the answer
RemoteDone ==
  /\ remote # NoResult
  /\ remote' = NoResult
  /\ UNCHANGED <<dvars, wvars, avars, origin>>

(***************************************************************************)
(* lib.rs: AppState and cmd_set_repo_path.  The host may run several       *)
(* invocations at once; each takes the repo_path lock and the watcher lock *)
(* one after the other, and is one step per lock or call that can fail.    *)
(***************************************************************************)
\* the paths the host passes to cmd_set_repo_path
Dirs == {"/a", "/b", "/x"}

\* open_repo(path) is Ok: there is a repository at the path
IsRepo(dir) == dir \in {"/a", "/b"}

\* the history of the repository at a path; the one at "/b" has no commit yet
RepoAt(dir) == IF dir = "/a" THEN repo ELSE <<>>

\* the FileWatcher built by FileWatcher::new(&path, app)
FileWatcherAt(path) == [root |-> path]

Callers == 1..MaxCalls

\* an invocation: where it is, its path argument, what it returned; and, for
\* stating the claims, the state it found and whether no other invocation has
\* moved since it began
NotCalled ==
  [pc |-> "idle", path |-> "", ret |-> "none",
   before |-> [repo_path |-> None, watcher |-> None], alone |-> TRUE]

\* invocation c moves to rec
Moved(c, rec) ==
  [d \in Callers |->
     IF d = c THEN rec
     ELSE IF calls[d].pc # "idle" THEN [calls[d] EXCEPT !.alone = FALSE]
     ELSE calls[d]]

\* line 48: open_repo(..)?  returns the error when the path is no repository
SetRepoPathOpen(c) ==
  /\ calls[c].pc = "idle"
  /\ \E path \in Dirs :
       calls' = Moved(c, [pc |-> IF IsRepo(path) THEN "store_path" ELSE "returned",
                          path |-> path,
                          ret |-> IF IsRepo(path) THEN "none" ELSE "Err",
                          before |-> [repo_path |-> repo_path, watcher |-> app_watcher],
                          alone |-> \A d \in Callers \ {c} :
                                      calls[d].pc \in {"idle", "returned"}])
  /\ UNCHANGED <<dvars, wvars, rvars, repo_path, app_watcher, commits>>

\* line 51: *state.repo_path.lock()? = Some(path.clone())
SetRepoPathStorePath(c) ==
  /\ calls[c].pc = "store_path"
  /\ repo_path' = Some(calls[c].path)
  /\ calls' = Moved(c, [calls[c] EXCEPT !.pc = "new_watcher"])
  /\ UNCHANGED <<dvars, wvars, rvars, app_watcher, commits>>

\* line 54: FileWatcher::new(&path, app)?  returns the error when the
\* debouncer cannot be made or the path cannot be watched
SetRepoPathNewWatcher(c) ==
  /\ calls[c].pc = "new_watcher"
  /\ \E watching \in BOOLEAN :
       calls' = Moved(c, IF watching
                         THEN [calls[c] EXCEPT !.pc = "store_watcher"]
                         ELSE [calls[c] EXCEPT !.pc = "returned", !.ret = "Err"])
  /\ UNCHANGED <<dvars, wvars, rvars, repo_path, app_watcher, commits>>

\* lines 55-57: *state.watcher.lock()? = Some(watcher); Ok(())
SetRepoPathStoreWatcher(c) ==
  /\ calls[c].pc = "store_watcher"
  /\ app_watcher' = Some(FileWatcherAt(calls[c].path))
  /\ calls' = Moved(c, [calls[c] EXCEPT !.pc = "returned", !.ret = "Ok"])
  /\ UNCHANGED <<dvars, wvars, rvars, repo_path, commits>>

cmd_set_repo_path(c) ==
  \/ SetRepoPathOpen(c)
  \/ SetRepoPathStorePath(c)
  \/ SetRepoPathNewWatcher(c)
  \/ SetRepoPathStoreWatcher(c)

(***************************************************************************)
(* lib.rs: cmd_get_commits.  usize arithmetic is modelled at UsizeBits     *)
(* bits: an operation whose result leaves the range panics in a build with *)
(* overflow checks and wraps in one without.                               *)
(***************************************************************************)
UsizeModulus == 2 ^ UsizeBits

\* usize::MAX at that width
MaxUsize == UsizeModulus - 1

\* page.unwrap_or(1)
DefaultPage == 1
\* limit.unwrap_or(20)
DefaultLimit == 20

UnwrapOr(option, default) ==
  IF option.kind = "None" THEN default ELSE option.value

\* the outcome of one arithmetic operation
Panicked == [ok |-> FALSE]

Usize(n) == [ok |-> TRUE, n |-> n]

\* a - b on usize
UsizeSub(a, b, overflow_checks) ==
  IF a - b >= 0 THEN Usize(a - b)
  ELSE IF overflow_checks THEN Panicked
  ELSE Usize((a - b) % UsizeModulus)

\* a * b on usize
UsizeMul(a, b, overflow_checks) ==
  IF a * b <= MaxUsize THEN Usize(a * b)
  ELSE IF overflow_checks THEN Panicked
  ELSE Usize((a * b) % UsizeModulus)

\* line 85: let offset = (page - 1) * limit
OffsetOf(page, limit, overflow_checks) ==
  LET difference == UsizeSub(page, 1, overflow_checks)
  IN  IF difference.ok
      THEN UsizeMul(difference.n, limit, overflow_checks)
      ELSE Panicked

\* the page and limit arguments the host passes: absent, small, or the largest
PageArgs == {None} \cup {Some(n) : n \in {0, 1, 2, MaxUsize}}

LimitArgs == {None} \cup {Some(n) : n \in {0, 1, 2, MaxUsize}}

\* what one call of cmd_get_commits comes to, with the offset it passed on
CommitsOf(page_arg, limit_arg, overflow_checks) ==
  LET page == UnwrapOr(page_arg, DefaultPage)
      limit == UnwrapOr(limit_arg, DefaultLimit)
      offset == OffsetOf(page, limit, overflow_checks)
      call == [page |-> page_arg, limit |-> limit_arg]
  IN  IF repo_path = None
      THEN [kind |-> "Err", error |-> "No repository selected", call |-> call]
      ELSE IF ~IsRepo(repo_path.value)
      THEN [kind |-> "Err", error |-> "open_repo", call |-> call]
      ELSE IF ~offset.ok
      THEN [kind |-> "Panic", call |-> call]
      ELSE [kind |-> "Returned", call |-> call, offset |-> offset.n,
            value |-> IF Len(RepoAt(repo_path.value)) = 0
                      THEN Err(GitErrorGit)
                      ELSE CommitHistoryOf(RepoAt(repo_path.value), limit, offset.n)]

cmd_get_commits ==
  /\ commits = NoResult
  /\ \E page \in PageArgs, limit \in LimitArgs, overflow_checks \in BOOLEAN :
       commits' = CommitsOf(page, limit, overflow_checks)
  /\ UNCHANGED <<dvars, wvars, rvars, repo_path, app_watcher, calls>>

\* the host takes the answer
CommitsDone ==
  /\ commits # NoResult
  /\ commits' = NoResult
  /\ UNCHANGED <<dvars, wvars, rvars, repo_path, app_watcher, calls>>

(***************************************************************************)
(* Specifications.                                                         *)
(***************************************************************************)
\* the watcher right after FileWatcher::new returned Ok
WatcherStarted ==
  /\ watcher = "alive"
  /\ sender = "open"
  /\ channel = <<>>
  /\ thread = [pc |-> "recv", events |-> <<>>]
  /\ emitted = <<>>
  /\ sent = 0
  /\ handled = [events |-> 0, errors |-> 0]

\* a repository without a remote, nothing asked
NoRemote ==
  /\ origin = [present |-> FALSE]
  /\ remote = NoResult

\* AppState::default(), no command running
AppDefault ==
  /\ repo_path = None
  /\ app_watcher = None
  /\ calls = [c \in Callers |-> NotCalled]
  /\ commits = NoResult

Quiet ==
  /\ WatcherStarted
  /\ AppDefault
  /\ op = Idle
  /\ max_patch_size = USIZE_MAX
  /\ delta = [path |-> ""]
  /\ files = <<>>
  /\ result = NoResult
  /\ fed = <<>>
  /\ ncallbacks = 0

\* the diff operations are explored on the repositories of at most one commit
DiffRepos == {r \in Repos : Len(r) <= 1}

InitDiff == repo \in DiffRepos /\ Quiet /\ NoRemote

NextDiff ==
  \/ get_current_diff
  \/ get_commit_diff
  \/ compare_branches
  \/ FileCallback
  \/ LineCallbackStep
  \/ Return
  \/ Done

SpecDiff == InitDiff /\ [][NextDiff]_vars

InitHistory == repo \in Repos /\ Quiet /\ NoRemote

NextHistory ==
  \/ get_commit_history
  \/ Done

SpecHistory == InitHistory /\ [][NextHistory]_vars

InitWatcher == repo = <<>> /\ Quiet /\ NoRemote

NextWatcher ==
  \/ SendEvents
  \/ SendError
  \/ DropWatcher
  \/ SenderDropped
  \/ Receive
  \/ HandleEvent

SpecWatcher == InitWatcher /\ [][NextWatcher]_vars

\* the scheduler runs the watcher thread, and the debouncer thread polls its
\* stop flag every tick
FairSpecWatcher ==
  /\ SpecWatcher
  /\ WF_vars(Receive)
  /\ WF_vars(HandleEvent)
  /\ WF_vars(SenderDropped)

InitRemote == repo = <<>> /\ Quiet /\ origin \in OriginUrls /\ remote = NoResult

NextRemote ==
  \/ get_remote_url
  \/ RemoteDone

SpecRemote == InitRemote /\ [][NextRemote]_vars

InitSetRepo == repo = <<>> /\ Quiet /\ NoRemote

NextSetRepo == \E c \in Callers : cmd_set_repo_path(c)

SpecSetRepo == InitSetRepo /\ [][NextSetRepo]_vars

InitCommits == repo \in Repos /\ Quiet /\ NoRemote

\* one invocation of cmd_set_repo_path selects the repository
NextCommits ==
  \/ cmd_set_repo_path(1)
  \/ cmd_get_commits
  \/ CommitsDone

SpecCommits == InitCommits /\ [][NextCommits]_vars

(***************************************************************************)
(* Claims about parse_diff and the diff operations (SpecDiff).             *)
(***************************************************************************)
\* the files a diff operation returned
Returned == result.kind \in {"DiffResult", "CommitDiff", "CompareBranchesResult"}

\* C1: every returned FileDiffInfo that is marked large has an empty patch
\* (the original claim; the code keeps appending after the mark).
C1_LargeHasEmptyPatch ==
  Returned =>
    \A i \in 1..Len(result.files) :
      result.files[i].is_large => result.files[i].patch = 0

\* C2: each returned file's additions / deletions are the numbers of '+' / '-'
\* lines the traversal delivered for it, large or not; other lines count nothing.
C2_CountersCountEveryLine ==
  Returned =>
    /\ Len(result.files) = Len(fed)
    /\ \A i \in 1..Len(fed) :
         /\ result.files[i].additions = fed[i].plus
         /\ result.files[i].deletions = fed[i].minus

\* a file marked large by its first '+' line that went on counting, next to
\* lines that are neither '+' nor '-'
C2_Witness ==
  /\ Returned
  /\ \E i \in 1..Len(result.files) :
       /\ result.files[i].is_large
       /\ result.files[i].additions + result.files[i].deletions >= 2
       /\ result.files[i].deletions >= 1
  /\ ncallbacks >= 5

RECURSIVE SumOf(_, _)
SumOf(fs, field) ==
  IF fs = <<>> THEN 0
  ELSE fs[Len(fs)][field] + SumOf(SubSeq(fs, 1, Len(fs) - 1), field)

\* C3: in every DiffResult and CompareBranchesResult, stats.additions and
\* stats.deletions are the sums over files and stats.files is the file count.
C3_StatsAreSums ==
  result.kind \in {"DiffResult", "CompareBranchesResult"} =>
    /\ result.stats.additions = SumOf(result.files, "additions")
    /\ result.stats.deletions = SumOf(result.files, "deletions")
    /\ result.stats.files = Len(result.files)

\* two files, both with counted lines
C3_Witness ==
  /\ result.kind \in {"DiffResult", "CompareBranchesResult"}
  /\ Len(result.files) = 2
  /\ \A i \in 1..2 : result.files[i].additions + result.files[i].deletions >= 1
  /\ result.stats.additions >= 2

\* C4: a CommitDiff's commit.stats are the totals of its files, whatever the
\* library's own summary for the commit says.
C4_CommitStatsFromFiles ==
  result.kind = "CommitDiff" =>
    /\ result.commit.stats.additions = SumOf(result.files, "additions")
    /\ result.commit.stats.deletions = SumOf(result.files, "deletions")
    /\ result.commit.stats.files = Len(result.files)

\* the library summary failed (zeroes) and the files have lines
C4_Witness ==
  /\ result.kind = "CommitDiff"
  /\ ~calculate_commit_stats(repo, op.sha.oid).ok
  /\ result.commit.stats.additions >= 1
  /\ result.commit.stats.files >= 1

\* C6: commit_diff on a sha that is not hex, or names no commit, fails
\* with CommitNotFound(sha) (the original claim; the code returns Git).
C6_BadShaIsCommitNotFound ==
  (/\ op.name = "commit_diff"
   /\ result # NoResult
   /\ (~op.sha.hex \/ op.sha.oid \notin 1..Len(repo)))
    => result = Err([kind |-> "CommitNotFound", sha |-> op.sha])

(***************************************************************************)
(* Claims about the watcher (SpecWatcher, FairSpecWatcher).                *)
(***************************************************************************)
\* ".git" occurs somewhere in the path
HasDotGit(path) ==
  \E i \in 1..(Len(path) - 3) : SubSeq(path, i, i + 3) = <<".", "g", "i", "t">>

\* file is path, taken relative to the watched root
RelativeToRoot(file, path) ==
  \/ path = BasePath /\ file = <<>>
  \/ file # <<>> /\ path = BasePath \o <<"/">> \o file

\* the file a published event is to carry: relative to the root, or the
\* absolute path when the path is not under the root
ExpectedFile(file, path) ==
  \/ RelativeToRoot(file, path)
  \/ /\ file = path
     /\ ~\E i \in 1..(Len(path) + 1) : RelativeToRoot(SubSeq(path, i, Len(path)), path)

\* C7: the thread publishes nothing for an event whose path contains ".git",
\* and for every other event makes exactly one publish attempt, a "change"
\* with the path relative to the root (absolute when not under the root).
C7_GitPathsFiltered ==
  [][(thread.pc = "events" /\ thread' # thread) =>
       LET path == Head(thread.events)
       IN  IF HasDotGit(path)
           THEN emitted' = emitted
           ELSE /\ Len(emitted') = Len(emitted) + 1
                /\ SubSeq(emitted', 1, Len(emitted)) = emitted
                /\ emitted'[Len(emitted')].event.event_type = "change"
                /\ ExpectedFile(emitted'[Len(emitted')].event.file, path)]_vars

\* three events handled: one dropped, one published relative to the root and
\* one published with its absolute path
C7_Witness ==
  /\ handled.events = 3
  /\ Len(emitted) = 2
  /\ \E i \in 1..2 : emitted[i].event.file = <<"d", "/", "a">>
  /\ \E i \in 1..2 : emitted[i].event.file = <<"/", "r", "x", "/", "a">>

Exited == thread.pc = "exited"

\* C8: the thread does not end while the handle is alive and the channel is
\* open, and once the handle is dropped it eventually ends.
C8_ThreadEndsAfterDrop ==
  /\ [](Exited => (watcher = "dropped" /\ sender = "closed"))
  /\ (watcher = "dropped") ~> Exited

\* the handle dropped with messages still queued, all drained before the end
C8_Witness ==
  /\ Exited
  /\ watcher = "dropped"
  /\ handled.events + handled.errors = MaxSent
  /\ emitted # <<>>

\* C10: neither a failed publish nor a raw watcher error ends the thread:
\* after a failed publish the rest of the batch is still to be handled, after
\* a raw error the thread receives again, and the thread ends only from a
\* receive on a closed, drained channel, with everything sent handled.
C10_FailuresDoNotEndThread ==
  /\ [](Exited =>
          /\ sender = "closed"
          /\ channel = <<>>
          /\ handled.events + handled.errors = sent)
  /\ [][/\ (Len(emitted') > Len(emitted) /\ ~emitted'[Len(emitted')].ok) =>
             (~Exited' /\ thread'.events = Tail(thread.events))
        /\ handled'.errors > handled.errors =>
             (thread'.pc = "recv" /\ channel' = Tail(channel))
        /\ (Exited' /\ ~Exited) =>
             (thread.pc = "recv" /\ sender = "closed" /\ channel = <<>>)]_vars

\* a failed publish followed by a later publish, and a raw error, before the end
C10_Witness ==
  /\ Exited
  /\ handled.errors >= 1
  /\ \E i \in 1..Len(emitted) : ~emitted[i].ok /\ i < Len(emitted)

(***************************************************************************)
(* Claims about get_commit_history (SpecHistory).                          *)
(***************************************************************************)
\* the full ordered history: every commit reachable from HEAD, newest first
FullHistory(r) == [i \in 1..Len(r) |-> commit_to_info(r, Len(r) + 1 - i)]

RECURSIVE ConcatPages(_, _, _)
ConcatPages(r, limit, k) ==
  IF k * limit >= Len(r) THEN <<>>
  ELSE CommitHistoryOf(r, limit, k * limit).commits \o ConcatPages(r, limit, k + 1)

\* C5: total is the number of reachable commits for every limit and offset; the
\* page is the slice of the history at offset; pages of limit L >= 1 at
\* offsets 0, L, 2L, ... concatenate to the full history; offset >= total
\* gives no commits.
C5_Pagination ==
  result.kind = "CommitHistory" =>
    LET full == FullHistory(repo)
        page == result.commits
    IN  /\ result.total = Len(full)
        /\ op.offset >= result.total => page = <<>>
        /\ \A j \in 1..Len(page) :
             op.offset + j <= Len(full) /\ page[j] = full[op.offset + j]
        /\ \A j \in 1..Len(full) :
             (op.offset < j /\ j <= op.offset + op.limit) => j - op.offset <= Len(page)
        /\ op.limit >= 1 => ConcatPages(repo, op.limit, 0) = full

\* a later, non-empty page of a history longer than the page
C5_Witness ==
  /\ result.kind = "CommitHistory"
  /\ op.offset >= 1
  /\ op.limit >= 1
  /\ op.limit < result.total
  /\ result.commits # <<>>
(***************************************************************************)
(* Claims about remote URL parsing (SpecRemote).                           *)
(***************************************************************************)
\* C9: for every host H, owner O and repository name R, git@H:O/R.git and
\* https://H/O/R.git both parse to {url: https://H/O/R, provider of H,
\* owner: O, repo: R} (the original claim; the code differs on a host with
\* capitals and on a name that itself ends in .git).
C9_BothFormsSameRemoteInfo ==
  \A h \in Hosts, o \in Owners, r \in RepoNames :
    (/\ remote # NoResult
     /\ origin.present
     /\ origin.url \in {ScpUrl(h, o, r), HttpsUrl(h, o, r)})
      => remote = Some([url |-> <<"h", "t", "t", "p", "s", ":", "/", "/">> \o h \o <<"/">> \o o \o <<"/">> \o r,
                        provider |-> detect_provider(h),
                        owner |-> o,
                        repo |-> r])
\* the git@-prefixed SCP-like form
IsScpForm(url) == StartsWith(url, <<"g", "i", "t", "@">>)

\* parseable as an absolute URL with a host
IsUrlWithHost(url) == UrlParse(url).ok /\ UrlParse(url).has_host

\* C11: an origin URL that is neither of the git@ form nor parseable as an
\* absolute URL with a host parses to None (the original claim; the code
\* takes a missing host as "" and answers Some for a two-component path).
C11_NoHostIsNone ==
  (/\ remote # NoResult
   /\ origin.present
   /\ ~IsScpForm(origin.url)
   /\ ~IsUrlWithHost(origin.url))
    => remote = None
(***************************************************************************)
(* Claims about cmd_set_repo_path (SpecSetRepo).                           *)
(***************************************************************************)
\* C12: once every invocation of cmd_set_repo_path has returned, and all of
\* them succeeded, the active watcher is rooted at the stored repository path
\* (the original claim; the two locks are taken apart, so the last writer of
\* the path need not be the last writer of the watcher).
C12_WatcherRootedAtStoredPath ==
  (/\ \A c \in Callers : calls[c].pc \in {"idle", "returned"} /\ calls[c].ret # "Err"
   /\ \E c \in Callers : calls[c].pc = "returned")
    => /\ repo_path.kind = "Some"
       /\ app_watcher = Some(FileWatcherAt(repo_path.value))

\* C13: when an invocation of cmd_set_repo_path has returned an error, and no
\* other invocation moved meanwhile, the stored path and the active watcher
\* are as the invocation found them (the original claim; the path is stored
\* before the watcher is made).
C13_ErrorLeavesStateUntouched ==
  \A c \in Callers :
    (calls[c].pc = "returned" /\ calls[c].ret = "Err" /\ calls[c].alone)
      => /\ repo_path = calls[c].before.repo_path
         /\ app_watcher = calls[c].before.watcher
(***************************************************************************)
(* Claims about cmd_get_commits (SpecCommits).                             *)
(***************************************************************************)
\* C14: for every page and limit cmd_get_commits accepts, page = 0 included,
\* the offset is computed without underflow or overflow and the offset passed
\* to get_commit_history is the mathematical (page - 1) * limit, with page 1
\* and limit 20 when absent (the original claim; page = 0 underflows).
C14_OffsetIsPageMinusOneTimesLimit ==
  commits.kind \in {"Panic", "Returned"}
    => /\ commits.kind = "Returned"
       /\ commits.offset = (UnwrapOr(commits.call.page, DefaultPage) - 1)
                             * UnwrapOr(commits.call.limit, DefaultLimit)
====
